---- MODULE Spec2Model ----
(***************************************************************************)
(* Model of app_final.py: the cached artifact loader load_data and the     *)
(* five dashboard panels that consume it.                                  *)
(*                                                                         *)
(* Floating point columns are modelled by integers (currency in whole      *)
(* units, probabilities in percent).  A CSV file is a header plus lines of *)
(* cells; pd.read_csv turns it into a table with named columns.            *)
(***************************************************************************)
EXTENDS Integers, Sequences, FiniteSets, TLC

VARIABLES
    fs,          \* the file system: path -> file content, or NoFile
    cache,       \* st.cache_data storage of load_data: argument -> entry
    readCount,   \* number of pd.read_csv calls per path
    fsChanges,   \* number of changes the environment made to the files
    calls,       \* number of direct load_data calls made (loader sessions)
    history,     \* per argument: number of calls, first and last result
    lastCall,    \* what the most recent load_data call saw and did
    tab,         \* the next tab of the script run (6: the script has ended)
    scriptError, \* the exception that stopped the script run, or "no"
    ui,          \* per panel: what it has put on the page in this run
    runs,        \* number of script runs started
    sess,        \* concurrent sessions: where each is in its load_data call
    locking,     \* whether st.cache_data serializes the computation of a key
    lock         \* the session computing the contested key, or 0

loaderVars == <<calls, history, lastCall>>
appVars == <<tab, scriptError, ui, runs>>
concVars == <<sess, locking, lock>>
vars == <<fs, cache, readCount, fsChanges, calls, history, lastCall,
          tab, scriptError, ui, runs, sess, locking, lock>>

(***************************************************************************)
(* Bounds of the model.                                                    *)
(***************************************************************************)
MaxCalls == 3
MaxFsChanges == 1
MaxRuns == 2
MaxFree == 4
BlockRows == 13
NumSessions == 2

(***************************************************************************)
(* Values.                                                                 *)
(***************************************************************************)
None == [kind |-> "None"]
NoFile == [kind |-> "nofile"]
Table(cols, rows) == [kind |-> "table", columns |-> cols, rows |-> rows]
CsvFile(header, lines) == [kind |-> "csv", header |-> header, lines |-> lines]

Range(s) == {s[i] : i \in DOMAIN s}

ARTIFACTS_DIR == "artifacts"

file_map ==
    [cluster_analysis   |-> "cluster_analysis.csv",
     fan_probabilities  |-> "fan_purchase_probabilities.csv",
     model_comparison   |-> "model_comparison.csv",
     team_forecasts     |-> "team_revenue_forecasts.csv",
     revenue_forecast   |-> "revenue_forecast_30d.csv",
     xgboost_importance |-> "xgboost_feature_importance.csv",
     lstm_history       |-> "lstm_training_history.csv"]

\* os.path.join(ARTIFACTS_DIR, filename)
path_join(dir, filename) == <<dir, filename>>

Paths == {path_join(ARTIFACTS_DIR, file_map[n]) : n \in DOMAIN file_map}

(***************************************************************************)
(* The artifacts the upstream process may have written.  Each file has two *)
(* versions, so that a file can change between two loads.                  *)
(***************************************************************************)
\* Dates are counted in days since 1970-01-01 (a Thursday).
DateText(d) == [text |-> d]           \* a date as written in the CSV file
Timestamp(d) == [timestamp |-> d]     \* the same date as a datetime64 value

Day(k) == 19723 + k    \* k days after 2024-01-01, a Monday

CsvVersions(name) ==
    CASE name = "team_forecasts" ->
           << CsvFile(<<"", "Expected_Revenue", "Avg_Purchase_Probability",
                        "Fan_Count", "Historical_Avg">>,
                      << <<"Imperial", 200, 60, 5, 150>>,
                         <<"Flamengo", 300, 80, 9, 250>>,
                         <<"Santos",   300, 40, 3, 100>> >>),
              CsvFile(<<"", "Revenue", "Avg_Purchase_Probability",
                        "Fan_Count", "Historical_Avg">>,
                      << <<"Imperial", 200, 60, 5, 150>> >>) >>
      [] name = "revenue_forecast" ->
           << CsvFile(<<"Date", "Revenue_Forecast", "Upper_Bound", "Lower_Bound">>,
                      << <<DateText(Day(0)),     100, 120, 80>>,
                         <<DateText(Day(2)),  50,  60, 40>>,
                         <<DateText(Day(7)),  30,  40, 20>> >>),
              CsvFile(<<"Date", "Revenue_Forecast", "Upper_Bound", "Lower_Bound">>,
                      << <<DateText(Day(3)), 10, 12, 8>>,
                         <<DateText(Day(4)), 20, 22, 18>>,
                         <<DateText(Day(5)), 30, 32, 28>>,
                         <<DateText(Day(6)), 40, 42, 38>>,
                         <<DateText(Day(7)), 50, 52, 48>>,
                         <<DateText(Day(8)), 60, 62, 58>>,
                         <<DateText(Day(9)), 70, 72, 68>>,
                         <<DateText(Day(10)), 5, 7, 3>> >>) >>
      [] name = "fan_probabilities" ->
           << CsvFile(<<"fan_id", "Total_Spent", "Purchase_Probability",
                        "Cluster", "Favorite_Team">>,
                      << <<1, 500, 90, 2, "Flamengo">>,
                         <<2,   0, 10, 0, "Imperial">>,
                         <<3,  80, 76, 1, "Santos">>,
                         <<4,  50, 75, 1, "Flamengo">> >>),
              CsvFile(<<"fan_id", "Total_Spent", "Purchase_Probability",
                        "Cluster", "Favorite_Team">>,
                      << <<1, 500, 90, 2, "Flamengo">>,
                         <<3,  80, 40, 1, "Santos">> >>) >>
      [] name = "cluster_analysis" ->
           << CsvFile(<<"Cluster", "Revenue_Share", "Total_Spent_mean">>,
                      << <<0, 50, 10>>, <<1, 20, 40>>, <<2, 30, 300>> >>),
              CsvFile(<<"Cluster", "Revenue_Share", "Total_Spent_mean">>,
                      << <<1, 26, 40>>, <<2, 74, 300>> >>) >>
      [] name = "model_comparison" ->
           << CsvFile(<<"Model", "RMSE", "MAE">>,
                      << <<"XGBoost", 10, 7>>, <<"LSTM", 15, 11>> >>),
              CsvFile(<<"Model", "RMSE", "MAPE">>,
                      << <<"XGBoost", 10, 7>> >>) >>
      [] name = "xgboost_importance" ->
           << CsvFile(<<"feature", "importance">>,
                      [i \in 1..17 |-> <<i, IF i \in {2, 9} THEN 5
                                            ELSE IF i \in {4, 11, 16} THEN 1
                                            ELSE 3>>]),
              CsvFile(<<"feature", "importance">>,
                      << <<1, 2>>, <<2, 7>>, <<3, 2>> >>) >>
      [] OTHER ->
           << CsvFile(<<"epoch", "loss">>, << <<1, 9>>, <<2, 4>> >>),
              CsvFile(<<"epoch", "loss">>, << <<1, 8>> >>) >>

Versions == 1..2

(***************************************************************************)
(* pd.read_csv: the header gives the column names, an unlabeled column is  *)
(* named "Unnamed: <position>", every line becomes a row addressed by      *)
(* column name.  Row order is the order of the lines.                      *)
(***************************************************************************)
UnnamedColumn == <<"Unnamed: 0", "Unnamed: 1", "Unnamed: 2", "Unnamed: 3", "Unnamed: 4">>

ColumnName(header, i) == IF header[i] = "" THEN UnnamedColumn[i] ELSE header[i]

IndexOf(s, x) == CHOOSE i \in DOMAIN s : s[i] = x

ParseCsv(file) ==
    LET cols == [i \in DOMAIN file.header |-> ColumnName(file.header, i)]
    IN  Table(cols,
              [r \in DOMAIN file.lines |->
                  [c \in Range(cols) |-> file.lines[r][IndexOf(cols, c)]]])

\* a test that takes every path to exist
path_exists_always(f, p) == TRUE
\* os.path.exists(path)
path_exists(f, p) == p \in DOMAIN f /\ f[p].kind # "nofile"

\* a read that stops after the first line of data
read_csv_partial(f, p) ==
    IF p \in DOMAIN f /\ f[p].kind = "csv"
    THEN [raised |-> "no",
          value |-> ParseCsv(CsvFile(f[p].header, SubSeq(f[p].lines, 1, 1)))]
    ELSE [raised |-> "FileNotFoundError", value |-> None]
\* pd.read_csv(path): raises when there is no such file
read_csv(f, p) ==
    IF p \in DOMAIN f /\ f[p].kind = "csv"
    THEN [raised |-> "no", value |-> ParseCsv(f[p])]
    ELSE [raised |-> "FileNotFoundError", value |-> None]

\* file_map[file_name]: a subscript raises KeyError on an unmapped name
file_map_subscript(name) ==
    IF name \in DOMAIN file_map
    THEN [raised |-> "no", filename |-> file_map[name]]
    ELSE [raised |-> "KeyError", filename |-> ""]
\* file_map.get(file_name): None (here the empty, falsy name) when unmapped
file_map_get(name) ==
    IF name \in DOMAIN file_map
    THEN [raised |-> "no", filename |-> file_map[name]]
    ELSE [raised |-> "no", filename |-> ""]

(***************************************************************************)
(* The body of load_data, without its cache.                               *)
(***************************************************************************)
load_data_body(f, name) ==
    LET m == file_map_get(name)
        path == path_join(ARTIFACTS_DIR, m.filename)
    IN  IF m.raised # "no"
        THEN [raised |-> m.raised, value |-> None, read |-> FALSE, path |-> path]
        ELSE IF m.filename # "" /\ path_exists(f, path)
        THEN LET r == read_csv(f, path)
             IN  [raised |-> r.raised, value |-> r.value, read |-> TRUE, path |-> path]
        ELSE [raised |-> "no", value |-> None, read |-> FALSE, path |-> path]

(***************************************************************************)
(* @st.cache_data: results are memoized per argument for the life of the   *)
(* process; an exception is not stored; every call hands out its own copy  *)
(* of the data, so the stored entry is not the object the caller holds.    *)
(***************************************************************************)
UnknownName == "ticket_sales"
KnownNames == DOMAIN file_map
Args == KnownNames \cup {UnknownName}

Miss == [kind |-> "miss", value |-> None]
Hit(v) == [kind |-> "hit", value |-> v]

\* a lookup that never finds an entry: load_data without memoization
cache_lookup_never(c, name) == Miss
\* the entry stored for the argument, if any
cache_lookup(c, name) == c[name]

\* the stored object itself is handed out (as st.cache_resource does)
returned_object_shared == "cached"
\* st.cache_data keeps a serialized copy: the caller's object is its own,
\* on a miss (the fresh result) and on a hit (a deserialized copy)
returned_object == "copy"

load_data(c, f, rc, name) ==
    LET e == cache_lookup(c, name)
    IN  IF e.kind = "hit"
        THEN [cache |-> c, readCount |-> rc, value |-> e.value, raised |-> "no",
              read |-> FALSE, hit |-> TRUE, ref |-> returned_object]
        ELSE LET r == load_data_body(f, name)
             IN  [cache |-> IF r.raised = "no"
                            THEN [c EXCEPT ![name] = Hit(r.value)] ELSE c,
                  readCount |-> IF r.read
                                THEN [rc EXCEPT ![r.path] = @ + 1] ELSE rc,
                  value |-> r.value, raised |-> r.raised,
                  read |-> r.read, hit |-> FALSE, ref |-> returned_object]

\* a write through the object load_data returned reaches the stored entry
\* only if that object is the stored one
store_after_write(c, name, ref, newValue) ==
    IF ref = "cached" /\ c[name].kind = "hit"
    THEN [c EXCEPT ![name] = Hit(newValue)] ELSE c

(***************************************************************************)
(* The environment: the upstream process writes or removes an artifact.    *)
(***************************************************************************)
NoHistory == [n |-> 0, first |-> None, last |-> None]
NoCall == [arg |-> "", existed |-> FALSE, hit |-> FALSE, value |-> None,
           raised |-> "no", read |-> FALSE]

FsWrite(name, v) ==
    LET p == path_join(ARTIFACTS_DIR, file_map[name])
    IN  /\ fsChanges < MaxFsChanges
        /\ fs[p] # CsvVersions(name)[v]
        /\ fs' = [fs EXCEPT ![p] = CsvVersions(name)[v]]
        /\ fsChanges' = fsChanges + 1
        /\ UNCHANGED <<cache, readCount, loaderVars, appVars, concVars>>

FsDelete(name) ==
    LET p == path_join(ARTIFACTS_DIR, file_map[name])
    IN  /\ fsChanges < MaxFsChanges
        /\ fs[p].kind # "nofile"
        /\ fs' = [fs EXCEPT ![p] = NoFile]
        /\ fsChanges' = fsChanges + 1
        /\ UNCHANGED <<cache, readCount, loaderVars, appVars, concVars>>

(***************************************************************************)
(* A loader session: any sequence of load_data calls, with any argument.   *)
(***************************************************************************)
CallLoadData(arg) ==
    LET r == load_data(cache, fs, readCount, arg)
        h == history[arg]
    IN  /\ calls < MaxCalls
        /\ calls' = calls + 1
        /\ cache' = r.cache
        /\ readCount' = r.readCount
        /\ lastCall' = [arg |-> arg,
                        existed |-> arg \in KnownNames
                                    /\ fs[path_join(ARTIFACTS_DIR, file_map[arg])].kind = "csv",
                        hit |-> r.hit, value |-> r.value,
                        raised |-> r.raised, read |-> r.read]
        /\ history' = [history EXCEPT ![arg] =
                          IF r.raised # "no" THEN h
                          ELSE [n |-> h.n + 1,
                                first |-> IF h.n = 0 THEN r.value ELSE h.first,
                                last |-> r.value]]
        /\ UNCHANGED <<fs, fsChanges, appVars, concVars>>

PathOf(name) == path_join(ARTIFACTS_DIR, file_map[name])
NameOf(p) == CHOOSE n \in KnownNames : PathOf(n) = p

\* the artifacts directory holding version ver[n] of each file (0: no file)
FilesWith(ver) ==
    [p \in Paths |-> IF ver[NameOf(p)] = 0 THEN NoFile
                     ELSE CsvVersions(NameOf(p))[ver[NameOf(p)]]]

EmptyCache ==
    /\ cache = [a \in Args |-> Miss]
    /\ readCount = [p \in Paths |-> 0]
    /\ fsChanges = 0

PanelNames == <<"display_home", "display_revenue_forecast", "display_team_revenue",
                "display_fan_segmentation", "display_model_performance">>
NoView == [kind |-> "none"]
Blank == [status |-> "blank", errors |-> 0, warnings |-> 0, view |-> NoView]

NoLoaderSession ==
    /\ calls = 0
    /\ history = [a \in Args |-> NoHistory]
    /\ lastCall = NoCall

NoScriptRun ==
    /\ tab = 6
    /\ scriptError = "no"
    /\ ui = [p \in Range(PanelNames) |-> Blank]
    /\ runs = 0

NoSessions ==
    /\ sess = <<>>
    /\ locking = FALSE
    /\ lock = 0

InitLoader ==
    /\ fs \in {FilesWith([n \in KnownNames |-> v]) : v \in 0..1}
    /\ EmptyCache
    /\ NoLoaderSession
    /\ NoScriptRun
    /\ NoSessions

NextLoader ==
    \/ \E arg \in Args : CallLoadData(arg)
    \/ \E n \in KnownNames, v \in Versions : FsWrite(n, v)
    \/ \E n \in KnownNames : FsDelete(n)

SpecLoader == InitLoader /\ [][NextLoader]_vars

(***************************************************************************)
(* pandas operations used by the panels.                                   *)
(***************************************************************************)
Columns(t) == Range(t.columns)

RECURSIVE SumOf(_, _)
\* Series.sum() of column col over rows
SumOf(rows, col) ==
    IF rows = <<>> THEN 0
    ELSE rows[1][col] + SumOf(Tail(rows), col)

\* df[mask]: the rows at the positions of the mask, in their order
SelectRows(rows, mask) ==
    [k \in 1..Cardinality(mask) |->
        rows[CHOOSE i \in mask : Cardinality({j \in mask : j <= i}) = k]]

\* Series.idxmax(): the position of the first row holding the maximum
idxmax(rows, col) ==
    CHOOSE i \in DOMAIN rows :
        /\ \A j \in DOMAIN rows : rows[j][col] <= rows[i][col]
        /\ \A j \in DOMAIN rows : j < i => rows[j][col] < rows[i][col]

RECURSIVE InsertDescending(_, _, _)
\* row placed after every row of sorted that is not smaller: a stable insert
InsertDescending(sorted, row, col) ==
    IF sorted = <<>> THEN <<row>>
    ELSE IF sorted[1][col] >= row[col]
         THEN <<sorted[1]>> \o InsertDescending(Tail(sorted), row, col)
         ELSE <<row>> \o sorted

RECURSIVE InsertDescendingLast(_, _, _)
\* row placed before its equals: later rows win the ties
InsertDescendingLast(sorted, row, col) ==
    IF sorted = <<>> THEN <<row>>
    ELSE IF sorted[1][col] > row[col]
         THEN <<sorted[1]>> \o InsertDescendingLast(Tail(sorted), row, col)
         ELSE <<row>> \o sorted

RECURSIVE SortDescending(_, _, _)
\* rows[1..n] sorted by col, largest first, equal rows in their input order
SortDescending(rows, n, col) ==
    IF n = 0 THEN <<>>
    ELSE InsertDescending(SortDescending(rows, n - 1, col), rows[n], col)

RECURSIVE SortDescendingLast(_, _, _)
SortDescendingLast(rows, n, col) ==
    IF n = 0 THEN <<>>
    ELSE InsertDescendingLast(SortDescendingLast(rows, n - 1, col), rows[n], col)

Min(a, b) == IF a < b THEN a ELSE b

\* df.sort_values(col, ascending=False): a new table
sort_values_descending(t, col) ==
    Table(t.columns, SortDescending(t.rows, Len(t.rows), col))

\* df.nlargest(n, col, keep='last')
nlargest_keep_last(t, n, col) ==
    Table(t.columns,
          SubSeq(SortDescendingLast(t.rows, Len(t.rows), col), 1, Min(n, Len(t.rows))))
\* df.nlargest(n, col): keep='first' is the default
nlargest(t, n, col) ==
    Table(t.columns,
          SubSeq(SortDescending(t.rows, Len(t.rows), col), 1, Min(n, Len(t.rows))))

\* df.rename(columns={old: new})
rename_column(t, old, new) ==
    Table([i \in DOMAIN t.columns |-> IF t.columns[i] = old THEN new ELSE t.columns[i]],
          [r \in DOMAIN t.rows |->
              [c \in (Columns(t) \ {old}) \cup {new} |->
                  IF c = new THEN t.rows[r][old] ELSE t.rows[r][c]]])

\* df[col] = values: the column is replaced, or appended when it is new
assign_column(t, col, values) ==
    Table(IF col \in Columns(t) THEN t.columns ELSE Append(t.columns, col),
          [r \in DOMAIN t.rows |->
              [c \in Columns(t) \cup {col} |->
                  IF c = col THEN values[r] ELSE t.rows[r][c]]])

\* pd.to_datetime of one cell
to_datetime(cell) == Timestamp(cell.text)

WeekOrder == <<"Monday", "Tuesday", "Wednesday", "Thursday", "Friday", "Saturday", "Sunday">>

\* Timestamp.day_name(): 1970-01-01 was a Thursday
day_name(ts) == WeekOrder[((ts.timestamp + 3) % 7) + 1]

\* a float that holds a number, and the float that holds none
Float(v) == [nan |-> FALSE, val |-> v]
NaN == [nan |-> TRUE, val |-> 0]

\* df.groupby(key)[col].sum(): one entry per key value that occurs
groupby_sum(rows, key, col) ==
    [k \in {rows[i][key] : i \in DOMAIN rows} |->
        SumOf(SelectRows(rows, {i \in DOMAIN rows : rows[i][key] = k}), col)]

\* Series.reindex(labels).reset_index(): a label without entry gets NaN
reindex(series, labels, key, col) ==
    [i \in DOMAIN labels |->
        [c \in {key, col} |->
            IF c = key THEN labels[i]
            ELSE IF labels[i] \in DOMAIN series THEN Float(series[labels[i]]) ELSE NaN]]

\* df.melt(id_vars=id, value_vars=vs, var_name='Metric', value_name='Value')
melt(t, id, vs) ==
    LET n == Len(t.rows)
    IN  [i \in 1..(n * Len(vs)) |->
            LET v == vs[((i - 1) \div n) + 1]
                r == t.rows[((i - 1) % n) + 1]
            IN  [Model |-> r[id], Metric |-> v, Value |-> r[v]]]

Project(rows, cols) == [i \in DOMAIN rows |-> [c \in cols |-> rows[i][c]]]

(***************************************************************************)
(* The panels.  Each view operator is the computation of one display_*     *)
(* function on the values load_data returned: what is put on the page, or  *)
(* the exception that leaves the function.                                 *)
(***************************************************************************)
Rendered(view) == [raised |-> "no", errors |-> 0, warnings |-> 0, view |-> view]
RaisedIn(exc) == [raised |-> exc, errors |-> 0, warnings |-> 0, view |-> NoView]
ErrorNotice == [raised |-> "no", errors |-> 1, warnings |-> 0, view |-> NoView]

IsNotNone(v) == v.kind # "None"

RECURSIVE LoadAll(_, _, _, _)
\* the load_data calls of one panel, in order; an exception ends them
LoadAll(c, f, rc, names) ==
    IF names = <<>>
    THEN [cache |-> c, readCount |-> rc, values |-> <<>>, refs |-> <<>>, raised |-> "no"]
    ELSE LET r == load_data(c, f, rc, names[1])
         IN  IF r.raised # "no"
             THEN [cache |-> r.cache, readCount |-> r.readCount,
                   values |-> <<>>, refs |-> <<>>, raised |-> r.raised]
             ELSE LET rest == LoadAll(r.cache, f, r.readCount, Tail(names))
                  IN  [cache |-> rest.cache, readCount |-> rest.readCount,
                       values |-> <<r.value>> \o rest.values,
                       refs |-> <<r.ref>> \o rest.refs,
                       raised |-> rest.raised]

\* the KPI computation with the all-present test replaced by any-present
home_view_partial(team_df, forecast_df, fan_df) ==
    IF IsNotNone(team_df) \/ IsNotNone(forecast_df) \/ IsNotNone(fan_df)
    THEN Rendered([kind |-> "kpis",
                   total_revenue_forecast |->
                       IF IsNotNone(forecast_df)
                       THEN SumOf(forecast_df.rows, "Revenue_Forecast") ELSE 0,
                   top_team |-> "", top_revenue |-> 0, high_prob_fans |-> 0])
    ELSE ErrorNotice
\* display_home after its three loads
home_view(team_df, forecast_df, fan_df) ==
    IF IsNotNone(team_df) /\ IsNotNone(forecast_df) /\ IsNotNone(fan_df)
    THEN IF "Revenue_Forecast" \notin Columns(forecast_df) THEN RaisedIn("KeyError")
         ELSE IF "Expected_Revenue" \notin Columns(team_df) THEN RaisedIn("KeyError")
         ELSE IF team_df.rows = <<>> THEN RaisedIn("ValueError")
         ELSE IF "Purchase_Probability" \notin Columns(fan_df) THEN RaisedIn("KeyError")
         ELSE LET top_team == team_df.rows[idxmax(team_df.rows, "Expected_Revenue")]
              IN  Rendered([kind |-> "kpis",
                            total_revenue_forecast |->
                                SumOf(forecast_df.rows, "Revenue_Forecast"),
                            top_team |-> top_team[team_df.columns[1]],
                            top_revenue |-> top_team["Expected_Revenue"],
                            high_prob_fans |->
                                Len(SelectRows(fan_df.rows,
                                      {i \in DOMAIN fan_df.rows :
                                          fan_df.rows[i]["Purchase_Probability"] > 75}))])
    ELSE ErrorNotice

\* display_revenue_forecast after its load; object is the table the panel
\* holds when it returns, after the writes it made to it
revenue_forecast_view(forecast_df) ==
    IF IsNotNone(forecast_df)
    THEN IF "Date" \notin Columns(forecast_df)
         THEN [out |-> RaisedIn("KeyError"), object |-> forecast_df]
         ELSE LET dated == assign_column(forecast_df, "Date",
                                [r \in DOMAIN forecast_df.rows |->
                                    to_datetime(forecast_df.rows[r]["Date"])])
              IN  IF ~({"Upper_Bound", "Lower_Bound", "Revenue_Forecast"}
                         \subseteq Columns(dated))
                  THEN [out |-> RaisedIn("KeyError"), object |-> dated]
                  ELSE LET named == assign_column(dated, "Day_of_Week",
                                        [r \in DOMAIN dated.rows |->
                                            day_name(dated.rows[r]["Date"])])
                           revenue_by_day ==
                               reindex(groupby_sum(named.rows, "Day_of_Week",
                                                   "Revenue_Forecast"),
                                       WeekOrder, "Day_of_Week", "Revenue_Forecast")
                       IN  [out |-> Rendered(
                                [kind |-> "forecast",
                                 series |-> Project(named.rows,
                                     {"Date", "Upper_Bound", "Lower_Bound",
                                      "Revenue_Forecast"}),
                                 revenue_by_day |-> revenue_by_day]),
                            object |-> named]
    ELSE [out |-> ErrorNotice, object |-> forecast_df]

\* display_team_revenue after its load
team_revenue_view(team_df) ==
    IF IsNotNone(team_df)
    THEN IF "Expected_Revenue" \notin Columns(team_df) THEN RaisedIn("KeyError")
         ELSE LET sorted == sort_values_descending(team_df, "Expected_Revenue")
                  renamed == IF "Unnamed: 0" \in Columns(sorted)
                             THEN rename_column(sorted, "Unnamed: 0", "Time")
                             ELSE sorted
              IN  IF ~({"Time", "Avg_Purchase_Probability", "Fan_Count",
                        "Historical_Avg"} \subseteq Columns(renamed))
                  THEN RaisedIn("ValueError")
                  ELSE Rendered([kind |-> "teams", table |-> renamed])
    ELSE ErrorNotice

\* display_fan_segmentation after its two loads
fan_segmentation_view(cluster_df, fan_df) ==
    IF IsNotNone(cluster_df) /\ IsNotNone(fan_df)
    THEN IF "Cluster" \notin Columns(cluster_df) THEN RaisedIn("KeyError")
         ELSE LET active == SelectRows(cluster_df.rows,
                                       {i \in DOMAIN cluster_df.rows :
                                           cluster_df.rows[i]["Cluster"] # 0})
              IN  IF ~({"Revenue_Share", "Total_Spent_mean"} \subseteq Columns(cluster_df))
                     \/ ~({"Total_Spent", "Purchase_Probability", "Cluster",
                           "fan_id", "Favorite_Team"} \subseteq Columns(fan_df))
                  THEN RaisedIn("ValueError")
                  ELSE Rendered(
                         [kind |-> "segments",
                          pie |-> Project(active, {"Cluster", "Revenue_Share"}),
                          bar |-> Project(active, {"Cluster", "Total_Spent_mean"}),
                          scatter |-> Project(fan_df.rows,
                              {"Total_Spent", "Purchase_Probability", "Cluster",
                               "fan_id", "Favorite_Team"})])
    ELSE ErrorNotice

\* display_model_performance after its two loads: the two halves are
\* shown independently, a missing table is a warning
model_performance_view(comp_df, importance_df) ==
    LET warned == (IF IsNotNone(comp_df) THEN 0 ELSE 1)
                  + (IF IsNotNone(importance_df) THEN 0 ELSE 1)
        metrics == IF IsNotNone(comp_df)
                   THEN melt(comp_df, "Model", <<"RMSE", "MAE">>) ELSE <<>>
        top == IF IsNotNone(importance_df)
               THEN nlargest(importance_df, 15, "importance").rows ELSE <<>>
    IN  IF IsNotNone(comp_df) /\ ~({"Model", "RMSE", "MAE"} \subseteq Columns(comp_df))
        THEN RaisedIn("KeyError")
        ELSE IF IsNotNone(importance_df) /\ "importance" \notin Columns(importance_df)
        THEN [raised |-> "KeyError", errors |-> 0,
              warnings |-> IF IsNotNone(comp_df) THEN 0 ELSE 1,
              view |-> [kind |-> "models", has_metrics |-> IsNotNone(comp_df),
                        metrics |-> metrics, has_top |-> FALSE, top |-> <<>>]]
        ELSE IF IsNotNone(importance_df) /\ "feature" \notin Columns(importance_df)
        THEN [raised |-> "ValueError", errors |-> 0,
              warnings |-> IF IsNotNone(comp_df) THEN 0 ELSE 1,
              view |-> [kind |-> "models", has_metrics |-> IsNotNone(comp_df),
                        metrics |-> metrics, has_top |-> FALSE, top |-> <<>>]]
        ELSE [raised |-> "no", errors |-> 0, warnings |-> warned,
              view |-> [kind |-> "models", has_metrics |-> IsNotNone(comp_df),
                        metrics |-> metrics,
                        has_top |-> IsNotNone(importance_df), top |-> top]]

(***************************************************************************)
(* The script: the five tabs are filled in order; an exception that leaves *)
(* a display_* function is caught nowhere and ends the script run.         *)
(***************************************************************************)
Shown(out) ==
    [status |-> IF out.raised = "no" THEN "rendered" ELSE "raised",
     errors |-> out.errors, warnings |-> out.warnings, view |-> out.view]

EndPanel(panel, loads, out) ==
    /\ cache' = loads.cache
    /\ readCount' = loads.readCount
    /\ ui' = [ui EXCEPT ![panel] = Shown(out)]
    /\ scriptError' = out.raised
    /\ tab' = IF out.raised = "no" THEN tab + 1 ELSE 6
    /\ UNCHANGED <<fs, fsChanges, runs, loaderVars, concVars>>

display_home ==
    /\ tab = 1
    /\ \E l \in {LoadAll(cache, fs, readCount,
                         <<"team_forecasts", "revenue_forecast", "fan_probabilities">>)} :
       \E out \in {IF l.raised # "no" THEN RaisedIn(l.raised)
                   ELSE home_view(l.values[1], l.values[2], l.values[3])} :
          EndPanel("display_home", l, out)

display_revenue_forecast ==
    /\ tab = 2
    /\ \E l \in {LoadAll(cache, fs, readCount, <<"revenue_forecast">>)} :
       \E v \in {IF l.raised # "no" THEN [out |-> RaisedIn(l.raised), object |-> None]
                 ELSE revenue_forecast_view(l.values[1])} :
          EndPanel("display_revenue_forecast",
                   IF l.raised # "no" THEN l
                   ELSE [l EXCEPT !.cache = store_after_write(
                            l.cache, "revenue_forecast", l.refs[1], v.object)],
                   v.out)

display_team_revenue ==
    /\ tab = 3
    /\ \E l \in {LoadAll(cache, fs, readCount, <<"team_forecasts">>)} :
       \E out \in {IF l.raised # "no" THEN RaisedIn(l.raised)
                   ELSE team_revenue_view(l.values[1])} :
          EndPanel("display_team_revenue", l, out)

display_fan_segmentation ==
    /\ tab = 4
    /\ \E l \in {LoadAll(cache, fs, readCount,
                         <<"cluster_analysis", "fan_probabilities">>)} :
       \E out \in {IF l.raised # "no" THEN RaisedIn(l.raised)
                   ELSE fan_segmentation_view(l.values[1], l.values[2])} :
          EndPanel("display_fan_segmentation", l, out)

display_model_performance ==
    /\ tab = 5
    /\ \E l \in {LoadAll(cache, fs, readCount,
                         <<"model_comparison", "xgboost_importance">>)} :
       \E out \in {IF l.raised # "no" THEN RaisedIn(l.raised)
                   ELSE model_performance_view(l.values[1], l.values[2])} :
          EndPanel("display_model_performance", l, out)

\* Streamlit runs the script from the top: on page load and on every
\* interaction.  The page is rebuilt; the cache outlives the run.
RunScript ==
    /\ tab = 6
    /\ runs < MaxRuns
    /\ runs' = runs + 1
    /\ tab' = 1
    /\ scriptError' = "no"
    /\ ui' = [p \in Range(PanelNames) |-> Blank]
    /\ UNCHANGED <<fs, cache, readCount, fsChanges, loaderVars, concVars>>

Init ==
    /\ fs \in {FilesWith(ver) : ver \in [KnownNames -> 0..2]}
    /\ EmptyCache
    /\ NoLoaderSession
    /\ NoScriptRun
    /\ NoSessions

Next ==
    \/ RunScript
    \/ display_home
    \/ display_revenue_forecast
    \/ display_team_revenue
    \/ display_fan_segmentation
    \/ display_model_performance

Spec == Init /\ [][Next]_vars

(***************************************************************************)
(* Feature-importance files for the top-15 selection: a block of rows of   *)
(* equal importance with up to MaxFree rows of any importance before and   *)
(* after it.  The feature of a row is its position in the file.            *)
(***************************************************************************)
SeqsUpTo(S, k) == UNION {[1..m -> S] : m \in 0..k}

ImportanceColumns ==
    {before \o [i \in 1..BlockRows |-> 2] \o after :
        <<before, after>> \in
            {pair \in SeqsUpTo(1..3, MaxFree) \X SeqsUpTo(1..3, MaxFree) :
                Len(pair[1]) + Len(pair[2]) <= MaxFree}}

ImportanceFile(imp) ==
    CsvFile(<<"feature", "importance">>, [i \in DOMAIN imp |-> <<i, imp[i]>>])

InitTopN ==
    /\ fs \in {[FilesWith([n \in KnownNames |-> 0])
                  EXCEPT ![PathOf("xgboost_importance")] = ImportanceFile(imp)] :
               imp \in ImportanceColumns}
    /\ EmptyCache
    /\ NoLoaderSession
    /\ NoScriptRun
    /\ NoSessions

SpecTopN == InitTopN /\ [][Next]_vars

(***************************************************************************)
(* Concurrent sessions.  Each session runs the script in its own thread;   *)
(* here every session makes a first-time load_data call for the same name. *)
(* The steps of one call: look the key up; on a miss (under the key's lock *)
(* and after a second lookup, when the cache serializes computations)      *)
(* resolve the name and test the path, read the file, store the result.    *)
(* The file may be written or removed between any two steps.               *)
(***************************************************************************)
Sessions == 1..NumSessions

Starting(name) ==
    [pc |-> "start", arg |-> name, missed |-> FALSE, read |-> FALSE,
     value |-> None, raised |-> "no"]

Release(s) == IF lock = s THEN 0 ELSE lock

Lookup(s) ==
    /\ sess[s].pc = "start"
    /\ LET e == cache_lookup(cache, sess[s].arg)
       IN  sess' = [sess EXCEPT ![s] =
                      IF e.kind = "hit"
                      THEN [@ EXCEPT !.pc = "returned", !.value = e.value]
                      ELSE [@ EXCEPT !.pc = IF locking THEN "acquire" ELSE "resolve",
                                     !.missed = TRUE]]
    /\ UNCHANGED <<fs, cache, readCount, fsChanges, locking, lock, loaderVars, appVars>>

Acquire(s) ==
    /\ sess[s].pc = "acquire"
    /\ lock = 0
    /\ lock' = s
    /\ sess' = [sess EXCEPT ![s].pc = "relookup"]
    /\ UNCHANGED <<fs, cache, readCount, fsChanges, locking, loaderVars, appVars>>

Relookup(s) ==
    /\ sess[s].pc = "relookup"
    /\ LET e == cache_lookup(cache, sess[s].arg)
       IN  /\ sess' = [sess EXCEPT ![s] =
                         IF e.kind = "hit"
                         THEN [@ EXCEPT !.pc = "returned", !.value = e.value]
                         ELSE [@ EXCEPT !.pc = "resolve"]]
           /\ lock' = IF e.kind = "hit" THEN Release(s) ELSE lock
    /\ UNCHANGED <<fs, cache, readCount, fsChanges, locking, loaderVars, appVars>>

Resolve(s) ==
    /\ sess[s].pc = "resolve"
    /\ LET m == file_map_get(sess[s].arg)
           found == m.filename # "" /\ path_exists(fs, path_join(ARTIFACTS_DIR, m.filename))
       IN  sess' = [sess EXCEPT ![s] =
                      IF found THEN [@ EXCEPT !.pc = "read"]
                      ELSE [@ EXCEPT !.pc = "store", !.value = None]]
    /\ UNCHANGED <<fs, cache, readCount, fsChanges, locking, lock, loaderVars, appVars>>

Read(s) ==
    /\ sess[s].pc = "read"
    /\ LET r == read_csv(fs, PathOf(sess[s].arg))
       IN  /\ sess' = [sess EXCEPT ![s] =
                         IF r.raised = "no"
                         THEN [@ EXCEPT !.pc = "store", !.value = r.value, !.read = TRUE]
                         ELSE [@ EXCEPT !.pc = "raised", !.raised = r.raised]]
           /\ readCount' = IF r.raised = "no"
                           THEN [readCount EXCEPT ![PathOf(sess[s].arg)] = @ + 1]
                           ELSE readCount
           /\ lock' = IF r.raised = "no" THEN lock ELSE Release(s)
    /\ UNCHANGED <<fs, cache, fsChanges, locking, loaderVars, appVars>>

Store(s) ==
    /\ sess[s].pc = "store"
    /\ cache' = [cache EXCEPT ![sess[s].arg] = Hit(sess[s].value)]
    /\ sess' = [sess EXCEPT ![s].pc = "returned"]
    /\ lock' = Release(s)
    /\ UNCHANGED <<fs, readCount, fsChanges, locking, loaderVars, appVars>>

InitConc ==
    /\ fs \in {FilesWith([n \in KnownNames |-> v]) : v \in 0..1}
    /\ EmptyCache
    /\ NoLoaderSession
    /\ NoScriptRun
    /\ sess \in {[s \in Sessions |-> Starting(n)] : n \in KnownNames}
    /\ locking \in BOOLEAN
    /\ lock = 0

NextConc ==
    \/ \E s \in Sessions : Lookup(s)
    \/ \E s \in Sessions : Acquire(s)
    \/ \E s \in Sessions : Relookup(s)
    \/ \E s \in Sessions : Resolve(s)
    \/ \E s \in Sessions : Read(s)
    \/ \E s \in Sessions : Store(s)
    \/ \E v \in Versions : FsWrite(sess[1].arg, v)
    \/ FsDelete(sess[1].arg)

SpecConc == InitConc /\ [][NextConc]_vars

(***************************************************************************)
(* Properties of the loader (SpecLoader).                                  *)
(***************************************************************************)

\* C1: within one session, for each of the seven mapped names, every
\* load_data call after the first returns the content the first call
\* returned, and the backing file is read at most once, whatever happens to
\* the file between the calls.
CacheIdempotence ==
    \A n \in KnownNames :
        /\ history[n].n >= 2 => history[n].last = history[n].first
        /\ readCount[PathOf(n)] <= 1

\* a name was loaded, its file was then replaced by other content, and the
\* name was loaded again from the cache
CacheIdempotenceWitness ==
    \E n \in KnownNames :
        /\ history[n].n >= 2
        /\ lastCall.arg = n /\ lastCall.hit
        /\ history[n].first.kind = "table"
        /\ readCount[PathOf(n)] = 1
        /\ fs[PathOf(n)].kind = "csv"
        /\ ParseCsv(fs[PathOf(n)]) # history[n].first

\* C2 as stated: load_data of a mapped name whose path does not exist
\* returns None, does not raise and attempts no read.
AbsentFileGivesNone ==
    (lastCall.arg \in KnownNames /\ ~lastCall.existed) =>
        (lastCall.value = None /\ lastCall.raised = "no" /\ ~lastCall.read)

\* C2 amended: load_data of a mapped name that is not yet cached and whose
\* path does not exist returns None, does not raise and attempts no read.
AbsentFileGivesNoneOnFirstLoad ==
    (lastCall.arg \in KnownNames /\ ~lastCall.existed /\ ~lastCall.hit) =>
        (lastCall.value = None /\ lastCall.raised = "no" /\ ~lastCall.read)

\* a mapped name without file was loaded for the first time and gave None
AbsentFileWitness ==
    /\ lastCall.arg \in KnownNames
    /\ ~lastCall.existed /\ ~lastCall.hit
    /\ lastCall.value = None
    /\ readCount[PathOf(lastCall.arg)] = 0

SevenNames ==
    {"cluster_analysis", "fan_probabilities", "model_comparison", "team_forecasts",
     "revenue_forecast", "xgboost_importance", "lstm_history"}

\* C9 as stated: the mapping covers exactly the seven names, and a call with
\* a name outside them ends differently from a call with a mapped name whose
\* file is missing (which returns None without raising).
UnknownNameIsAnError ==
    /\ DOMAIN file_map = SevenNames
    /\ (lastCall.arg # "" /\ lastCall.arg \notin SevenNames) =>
           ~(lastCall.value = None /\ lastCall.raised = "no")

\* C9 amended: the mapping covers exactly the seven names, and a call with a
\* name outside them returns None without raising and without touching a
\* file, as a call with a mapped name whose file is missing does.
UnknownNameGivesNone ==
    /\ DOMAIN file_map = SevenNames
    /\ (lastCall.arg # "" /\ lastCall.arg \notin SevenNames) =>
           (lastCall.value = None /\ lastCall.raised = "no" /\ ~lastCall.read)

\* an unmapped name was loaded and gave None
UnknownNameWitness ==
    /\ lastCall.arg = UnknownName
    /\ lastCall.value = None
    /\ cache[UnknownName] = Hit(None)

(***************************************************************************)
(* Properties of the panels (Spec).                                        *)
(***************************************************************************)
KpiInputs == {"team_forecasts", "revenue_forecast", "fan_probabilities"}
IsAbsent(n) == cache[n].kind = "hit" /\ cache[n].value.kind = "None"
IsPresent(n) == cache[n].kind = "hit" /\ cache[n].value.kind = "table"

\* C3: when display_home has run and any of its three tables is absent, no
\* KPI is shown and exactly one notice is; KPIs are shown only when all
\* three tables are present.
KpiAllOrNothing ==
    ui["display_home"].status # "blank" =>
        /\ (\E n \in KpiInputs : ~IsPresent(n)) =>
               /\ ui["display_home"].view.kind = "none"
               /\ ui["display_home"].errors = 1
               /\ ui["display_home"].status = "rendered"
        /\ ui["display_home"].view.kind = "kpis" => \A n \in KpiInputs : IsPresent(n)

\* display_home ran with fan_probabilities absent and the other two present
KpiAllOrNothingWitness ==
    /\ ui["display_home"].status = "rendered"
    /\ IsAbsent("fan_probabilities")
    /\ IsPresent("team_forecasts") /\ IsPresent("revenue_forecast")
    /\ ui["display_home"].errors = 1
    /\ ui["display_home"].view.kind = "none"

RowsOfWeekday(t, d) ==
    SelectRows(t.rows, {i \in DOMAIN t.rows :
                           day_name(to_datetime(t.rows[i]["Date"])) = d})

\* C4: the weekday rollup has exactly 7 entries, Monday to Sunday, each the
\* sum of Revenue_Forecast over the rows of that weekday, 0 when the
\* weekday has no row.
WeekdayCompleteness ==
    ui["display_revenue_forecast"].view.kind = "forecast" =>
        LET rollup == ui["display_revenue_forecast"].view.revenue_by_day
            t == cache["revenue_forecast"].value
        IN  /\ Len(rollup) = 7
            /\ \A i \in 1..7 :
                  /\ rollup[i]["Day_of_Week"] = WeekOrder[i]
                  /\ rollup[i]["Revenue_Forecast"] =
                         Float(SumOf(RowsOfWeekday(t, WeekOrder[i]), "Revenue_Forecast"))

\* C5: none of the three view-models of display_fan_segmentation holds a
\* record of cluster 0.
ClusterZeroExcluded ==
    ui["display_fan_segmentation"].view.kind = "segments" =>
        LET v == ui["display_fan_segmentation"].view
        IN  /\ \A i \in DOMAIN v.pie : v.pie[i]["Cluster"] # 0
            /\ \A i \in DOMAIN v.bar : v.bar[i]["Cluster"] # 0
            /\ \A i \in DOMAIN v.scatter : v.scatter[i]["Cluster"] # 0

\* C7: when a script run has ended, every panel has rendered, whichever
\* panel met an absent or ill-formed table.
PanelsDegradeIndependently ==
    (runs >= 1 /\ tab = 6) =>
        \A p \in Range(PanelNames) :
            (\E q \in Range(PanelNames) : q # p /\ ui[q].status = "raised")
                => ui[p].status # "blank"

\* C8: no panel render changes a stored cache entry.
CachedTablesUnaltered ==
    [][\A n \in Args : cache[n].kind = "hit" => cache'[n] = cache[n]]_vars

\* in a second run, after display_revenue_forecast and display_team_revenue
\* have built their views from the cached tables, the cached tables still
\* have the columns of the file
CachedTablesUnalteredWitness ==
    /\ runs = 2
    /\ ui["display_revenue_forecast"].view.kind = "forecast"
    /\ ui["display_team_revenue"].view.kind = "teams"
    /\ "Time" \in Columns(ui["display_team_revenue"].view.table)
    /\ "Day_of_Week" \notin Columns(cache["revenue_forecast"].value)
    /\ cache["revenue_forecast"].value = ParseCsv(fs[PathOf("revenue_forecast")])
    /\ "Unnamed: 0" \in Columns(cache["team_forecasts"].value)

(***************************************************************************)
(* Properties of the top-15 selection (SpecTopN).                          *)
(***************************************************************************)

\* C6: the selection keeps min(15, row count) rows of xgboost_importance,
\* every kept row has an importance at least that of every dropped row, and
\* of two rows of equal importance on either side of the cut the kept one
\* comes first in the input.
TopNStable ==
    (ui["display_model_performance"].view.kind = "models"
       /\ ui["display_model_performance"].view.has_top) =>
        LET t == cache["xgboost_importance"].value
            top == ui["display_model_performance"].view.top
            kept == {top[i]["feature"] : i \in DOMAIN top}
            dropped == (1..Len(t.rows)) \ kept
        IN  /\ Len(top) = Min(15, Len(t.rows))
            /\ Cardinality(kept) = Len(top)
            /\ \A i \in DOMAIN top : top[i] = t.rows[top[i]["feature"]]
            /\ \A k \in kept, d \in dropped :
                  \/ t.rows[k]["importance"] > t.rows[d]["importance"]
                  \/ /\ t.rows[k]["importance"] = t.rows[d]["importance"]
                     /\ k < d

\* a table of more than 15 rows was cut between two rows of equal importance
TopNStableWitness ==
    /\ ui["display_model_performance"].view.kind = "models"
    /\ ui["display_model_performance"].view.has_top
    /\ LET t == cache["xgboost_importance"].value
           top == ui["display_model_performance"].view.top
           kept == {top[i]["feature"] : i \in DOMAIN top}
       IN  /\ Len(t.rows) > 15
           /\ Len(top) = 15
           /\ \E k \in kept, d \in (1..Len(t.rows)) \ kept :
                 t.rows[k]["importance"] = t.rows[d]["importance"]

(***************************************************************************)
(* Properties of concurrent first-time loads (SpecConc).                   *)
(***************************************************************************)
Contested == sess[1].arg

CompleteTables(name) == {ParseCsv(CsvVersions(name)[v]) : v \in Versions}

IsComplete(name, v) == v = None \/ v \in CompleteTables(name)

\* C10: in every interleaving of first-time requests for one name, every
\* value returned and every stored entry is None or a complete table of the
\* file, and either at most one read of the file takes place or every
\* request that found the key missing and returned a table read it itself.
ConcurrentFirstLoads ==
    /\ \A s \in Sessions :
          sess[s].pc = "returned" => IsComplete(Contested, sess[s].value)
    /\ cache[Contested].kind = "hit" => IsComplete(Contested, cache[Contested].value)
    /\ \/ readCount[PathOf(Contested)] <= 1
       \/ \A s \in Sessions :
             (sess[s].pc = "returned" /\ sess[s].missed /\ sess[s].value # None)
                 => sess[s].read

\* all requests found the key missing and have returned a table, after more
\* than one read of the file
ConcurrentFirstLoadsWitness ==
    /\ \A s \in Sessions :
          /\ sess[s].pc = "returned" /\ sess[s].missed
          /\ sess[s].value \in CompleteTables(Contested)
    /\ readCount[PathOf(Contested)] >= 2

====
